---- MODULE Spec2Model ----
(***************************************************************************)
(* Delayed-task scheduler of src/main.cpp: class Scheduler<Time> with its  *)
(* worker thread (loop / execute_pending), the caller operations           *)
(* schedule / cancel / done, the clock (Time::now, Time::advance) and the  *)
(* shutdown flag no_tasks_left.                                            *)
(*                                                                         *)
(* Every step that touches the job set is taken while the acting thread    *)
(* holds jobs_mutex.  A caller operation is two steps: the call, after     *)
(* which the caller waits for the mutex, and its critical section (lock,   *)
(* body, unlock), which runs only when no thread holds the mutex.  The     *)
(* worker's steps follow the statements of loop() and execute_pending();   *)
(* it keeps the mutex from line 104 until it waits or returns.             *)
(***************************************************************************)
EXTENDS Integers, Sequences, FiniteSets

\* ----------------------------------------------------------------- bounds
\* Number of schedule calls made by the callers.
MaxJobs ==
  3

\* Largest value the clock reaches (ticks).
MaxTime ==
  2

\* Number of caller (producer) threads.
NThreads ==
  2

\* The execution_thread started by the constructor; callers are 1..NThreads.
WorkerThread ==
  0

Threads ==
  1..NThreads

JobIds ==
  1..MaxJobs

Times ==
  0..MaxTime

VARIABLES
  clock,          \* Time::now_ : the value Time::now() returns
  no_tasks_left,  \* the global atomic shutdown flag
  jobs,           \* std::set<shared_ptr<Job>, JobComparator>, in iteration order
  launch_at,      \* Job::launch_at of each job
  canceled,       \* Job::canceled of each job
  use_count,      \* number of shared_ptr owners of each Job (0: handle expired)
  got,            \* the completion record: id -> time of execution
  jobs_mutex,     \* set of threads holding jobs_mutex
  notified,       \* a notify_one() reached the worker blocked in wait_until
  nsched,         \* number of schedule calls made so far (ids are 1..nsched)
  pc,             \* position of each caller thread
  arg,            \* job a caller's schedule / cancel call is about
  wpc,            \* position of the worker thread
  wdone,          \* worker: value done() returned at line 96
  now,            \* worker: parameter now of execute_pending
  it,             \* worker: the job `it` points at (0: none)
  joined,         \* the destructor's join() has returned
  executed,       \* history: ids in the order their actions were invoked
  discarded,      \* history: ids the worker erased as cancelled (line 109)
  calledEarly,    \* history: the caller's cancel call began while clock < launch_at
  cancelReturnedEarly, \* history: jobs a cancel call returned on while clock < launch_at
  insertedAfterExit    \* history: jobs the set took after the worker left loop()

vars ==
  <<clock, no_tasks_left, jobs, launch_at, canceled, use_count, got, jobs_mutex,
    notified, nsched, pc, arg,  wpc, wdone, now, it, joined, executed, discarded,
    calledEarly, cancelReturnedEarly, insertedAfterExit>>

sharedVars ==
  <<jobs, canceled, use_count, got, notified, executed, discarded>>

callerVars ==
  <<nsched, launch_at, pc, arg,  calledEarly, cancelReturnedEarly, insertedAfterExit>>

workerVars ==
  <<wpc, wdone, now, it>>

envVars ==
  <<clock, no_tasks_left, joined>>

\* ---------------------------------------------------------------- helpers
Range(q) ==
  {q[i] : i \in DOMAIN q}

InQueue(j) ==
  j \in Range(jobs)

\* Job::operator< : jobs are compared by launch_at alone.
JobLess(a, b) ==
  launch_at[a] < launch_at[b]

\* JobComparator: the set's ordering of two shared_ptr<Job>.
JobComparator(a, b) ==
  JobLess(a, b)

\* Equivalence of keys in std::set: neither is ordered before the other.
Equivalent(a, b) ==
  ~JobComparator(a, b) /\ ~JobComparator(b, a)

\* std::set::insert decides whether the element goes in: it does not when an
\* equivalent element is present.
Inserts(q, j) ==
  \A i \in DOMAIN q : ~Equivalent(q[i], j)

SetInsert_Refuse(q, j) ==
  q

SetInsert_Append(q, j) ==
  IF Inserts(q, j) THEN Append(q, j) ELSE q

\* std::set::insert: the set after jobs.insert(ptr), in iteration order.
SetInsert(q, j) ==
  IF Inserts(q, j)
    THEN LET k == Cardinality({i \in DOMAIN q : JobComparator(q[i], j)})
         IN  SubSeq(q, 1, k) \o <<j>> \o SubSeq(q, k + 1, Len(q))
    ELSE q

SetErase_Keep(q, j) ==
  q

\* std::set::erase(it): the set without the element `it` points at.
SetErase(q, j) ==
  SelectSeq(q, LAMBDA x : x # j)

\* jobs.begin(): the first element in iteration order.
Begin(q) ==
  q[1]

\* jobs.empty()
Empty(q) ==
  q = <<>>

\* weak_ptr::expired()
Expired(j) ==
  use_count[j] = 0

NotDue_OffByOne(j, n) ==
  launch_at[j] > n + 1

NotDue_OrEqual(j, n) ==
  launch_at[j] >= n

\* line 112: ptr->launch_at > now
NotDue(j, n) ==
  launch_at[j] > n

CancelFlags_Skip(j) ==
  canceled

CancelFlags_NoExpiryCheck(j) ==
  [canceled EXCEPT ![j] = TRUE]

\* lines 87-90: the cancelled flags after cancel(handle of j).
CancelFlags(j) ==
  IF Expired(j) THEN canceled ELSE [canceled EXCEPT ![j] = TRUE]

CanLock_Always ==
  TRUE

\* std::mutex::lock() returns only when no thread holds jobs_mutex
\* (lock_guard at lines 73, 81, 86; unique_lock at line 104; the relock at
\* the end of wait_until, line 113).
CanLock ==
  jobs_mutex = {}

Owners_HandleOwns(q, j) ==
  1

\* shared_ptr owners of job j when only the set q can own it: the local ptr
\* of schedule is gone at its return and the weak_ptr handle owns nothing
\* (lines 74-77); erase destroys the set's copy (lines 109, 119).
Owners(q, j) ==
  IF j \in Range(q) THEN 1 ELSE 0

\* The process is running: an exception that escapes the worker's thread
\* function ends it through std::terminate (no try/catch in lines 94-121).
ProcessAlive ==
  wpc # "crashed"

\* the unordered_map got after got[id] = t
GotPut(g, id, t) ==
  [k \in DOMAIN g \cup {id} |-> IF k = id THEN t ELSE g[k]]

NotifyOne_Lost ==
  notified

\* jobs_condvar.notify_one(): it reaches the worker only if it is blocked in
\* wait_until; otherwise it is lost.
NotifyOne ==
  notified \/ wpc = "waiting"

\* the schedule call about job j has returned its handle
Returned(j) ==
  /\ j \in 1..nsched
  /\ \A t \in Threads : ~(pc[t] = "schedule" /\ arg[t] = j)

Count(q, j) ==
  Cardinality({i \in DOMAIN q : q[i] = j})

\* ------------------------------------------------------------------- Init
Init ==
  /\ clock = 0
  /\ no_tasks_left = FALSE
  /\ jobs = <<>>
  /\ launch_at = [j \in JobIds |-> 0]
  /\ canceled = [j \in JobIds |-> FALSE]
  /\ use_count = [j \in JobIds |-> 0]
  /\ got = <<>>
  /\ jobs_mutex = {}
  /\ notified = FALSE
  /\ nsched = 0
  /\ pc = [t \in Threads |-> "idle"]
  /\ arg = [t \in Threads |-> 0]
  /\ wpc = "loop"
  /\ wdone = FALSE
  /\ now = 0
  /\ it = 0
  /\ joined = FALSE
  /\ executed = <<>>
  /\ discarded = {}
  /\ calledEarly = [t \in Threads |-> FALSE]
  /\ cancelReturnedEarly = {}
  /\ insertedAfterExit = {}

\* ------------------------------------------------------------ environment
\* Time::advance (FakeTime) or the passing of time (RealTime): one tick.
Advance ==
  /\ ProcessAlive
  /\ clock < MaxTime
  /\ clock' = clock + 1
  /\ UNCHANGED <<no_tasks_left, joined, sharedVars, jobs_mutex, callerVars, workerVars>>

\* main, line 191: no_tasks_left = true
SetNoTasksLeft ==
  /\ ProcessAlive
  /\ ~no_tasks_left
  /\ no_tasks_left' = TRUE
  /\ UNCHANGED <<clock, joined, sharedVars, jobs_mutex, callerVars, workerVars>>

\* ~Scheduler, lines 66-70 and 123-127: the owner destroys the scheduler when
\* none of its calls is in progress; execution_thread.join() returns once the
\* worker has left loop(), then the members are destroyed: the set goes and
\* with it the last owner of every job still queued.
Join ==
  /\ ~joined
  /\ wpc = "terminated"
  /\ \A t \in Threads : pc[t] = "idle"
  /\ joined' = TRUE
  /\ jobs' = <<>>
  /\ use_count' = [j \in JobIds |-> Owners(jobs', j)]
  /\ UNCHANGED <<clock, no_tasks_left, canceled, got, notified, executed, discarded,
                 jobs_mutex, callerVars, workerVars>>

\* ---------------------------------------------------------------- callers
\* A caller calls schedule(id, fn, at): ids are handed out in call order and
\* the due time is not before the time of the call (main, lines 174-183).
ScheduleCall(t, at) ==
  /\ ProcessAlive
  /\ pc[t] = "idle"
  /\ ~joined
  /\ nsched < MaxJobs
  /\ at >= clock
  /\ nsched' = nsched + 1
  /\ launch_at' = [launch_at EXCEPT ![nsched + 1] = at]
  /\ pc' = [pc EXCEPT ![t] = "schedule"]
  /\ arg' = [arg EXCEPT ![t] = nsched + 1]
  /\ UNCHANGED <<envVars, sharedVars, jobs_mutex,  calledEarly,
                 cancelReturnedEarly, insertedAfterExit, workerVars>>

\* schedule, lines 73-78: lock, make_shared, insert, notify_one, return the
\* weak_ptr; the local shared_ptr dies at the return, so the job lives on only
\* if the set took it.
ScheduleBody(t) ==
  /\ pc[t] = "schedule"
  /\ CanLock
  /\ jobs' = SetInsert(jobs, arg[t])
  /\ use_count' = [use_count EXCEPT ![arg[t]] = Owners(jobs', arg[t])]
  /\ notified' = NotifyOne
  /\ pc' = [pc EXCEPT ![t] = "idle"]
  /\ arg' = [arg EXCEPT ![t] = 0]
  /\ insertedAfterExit' =
       IF wpc = "terminated" /\ Inserts(jobs, arg[t])
         THEN insertedAfterExit \cup {arg[t]}
         ELSE insertedAfterExit
  /\ UNCHANGED <<envVars, canceled, got, executed, discarded, jobs_mutex, nsched, launch_at,
                  calledEarly, cancelReturnedEarly, workerVars>>

\* A caller calls cancel(handle) with a handle some schedule call returned.
CancelCall(t, j) ==
  /\ ProcessAlive
  /\ pc[t] = "idle"
  /\ ~joined
  /\ Returned(j)
  /\ pc' = [pc EXCEPT ![t] = "cancel"]
  /\ arg' = [arg EXCEPT ![t] = j]
  /\ calledEarly' = [calledEarly EXCEPT ![t] = clock < launch_at[j]]
  /\ UNCHANGED <<envVars, sharedVars, jobs_mutex, nsched, launch_at, cancelReturnedEarly, insertedAfterExit, workerVars>>

\* cancel, lines 86-91
CancelBody(t) ==
  /\ pc[t] = "cancel"
  /\ CanLock
  /\ canceled' = CancelFlags(arg[t])
  /\ cancelReturnedEarly' =
       IF clock < launch_at[arg[t]] THEN cancelReturnedEarly \cup {arg[t]}
                                    ELSE cancelReturnedEarly
  /\ pc' = [pc EXCEPT ![t] = "idle"]
  /\ arg' = [arg EXCEPT ![t] = 0]
  /\ calledEarly' = [calledEarly EXCEPT ![t] = FALSE]
  /\ UNCHANGED <<envVars, jobs, use_count, got, notified, executed, discarded, jobs_mutex,
                 nsched, launch_at, insertedAfterExit, workerVars>>

\* A caller calls done().
DoneCall(t) ==
  /\ ProcessAlive
  /\ pc[t] = "idle"
  /\ ~joined
  /\ pc' = [pc EXCEPT ![t] = "done"]
  /\ UNCHANGED <<envVars, sharedVars, jobs_mutex, nsched, launch_at, arg, calledEarly, cancelReturnedEarly, insertedAfterExit, workerVars>>

\* done, lines 81-82: the caller gets Empty(jobs) as of this step
DoneBody(t) ==
  /\ pc[t] = "done"
  /\ CanLock
  /\ pc' = [pc EXCEPT ![t] = "idle"]
  /\ UNCHANGED <<envVars, sharedVars, jobs_mutex, nsched, launch_at, arg,
                 calledEarly, cancelReturnedEarly, insertedAfterExit, workerVars>>

\* ----------------------------------------------------------------- worker
\* loop, line 96: done() (lines 81-82) on the worker thread
WDone ==
  /\ wpc = "loop"
  /\ CanLock
  /\ wdone' = Empty(jobs)
  /\ wpc' = "flag"
  /\ UNCHANGED <<envVars, sharedVars, jobs_mutex, callerVars, now, it>>

\* loop, lines 96-98: ... && no_tasks_left, read after done() has returned
WFlag ==
  /\ wpc = "flag"
  /\ wpc' = IF wdone /\ no_tasks_left THEN "terminated" ELSE "now"
  /\ wdone' = FALSE
  /\ UNCHANGED <<envVars, sharedVars, jobs_mutex, callerVars, now, it>>

\* loop, line 99: the argument time.now()
WNow ==
  /\ wpc = "now"
  /\ now' = clock
  /\ wpc' = "lock"
  /\ UNCHANGED <<envVars, sharedVars, jobs_mutex, callerVars, wdone, it>>

\* execute_pending, line 104
WLock ==
  /\ wpc = "lock"
  /\ CanLock
  /\ jobs_mutex' = {WorkerThread}
  /\ wpc' = "iter"
  /\ UNCHANGED <<envVars, sharedVars, callerVars, wdone, now, it>>

\* execute_pending, line 105 with the queue empty: return, releasing the mutex
WEmpty ==
  /\ wpc = "iter"
  /\ Empty(jobs)
  /\ jobs_mutex' = {}
  /\ wpc' = "loop"
  /\ now' = 0
  /\ it' = 0
  /\ UNCHANGED <<envVars, sharedVars, callerVars, wdone>>

\* execute_pending, lines 106-111: the first job is cancelled, erase it
WSkipCanceled ==
  /\ wpc = "iter"
  /\ ~Empty(jobs)
  /\ canceled[Begin(jobs)]
  /\ jobs' = SetErase(jobs, Begin(jobs))
  /\ use_count' = [use_count EXCEPT ![Begin(jobs)] = Owners(jobs', Begin(jobs))]
  /\ discarded' = discarded \cup {Begin(jobs)}
  /\ UNCHANGED <<envVars, canceled, got, notified, executed,
                 jobs_mutex, callerVars, workerVars>>

\* execute_pending, lines 112-113: the first job is not due, wait_until
\* releases the mutex and blocks
WWait ==
  /\ wpc = "iter"
  /\ ~Empty(jobs)
  /\ ~canceled[Begin(jobs)]
  /\ NotDue(Begin(jobs), now)
  /\ jobs_mutex' = {}
  /\ notified' = FALSE
  /\ wpc' = "waiting"
  /\ it' = Begin(jobs)
  /\ UNCHANGED <<envVars, jobs, canceled, use_count, got, executed, discarded, callerVars, wdone, now>>

\* execute_pending, lines 113-114: wait_until returns (notified, timed out or
\* spuriously) once it has the mutex again; execute_pending returns
WWake ==
  /\ wpc = "waiting"
  /\ CanLock
  /\ notified' = FALSE
  /\ wpc' = "loop"
  /\ now' = 0
  /\ it' = 0
  /\ UNCHANGED <<envVars, jobs, canceled, use_count, got, executed, discarded, jobs_mutex, callerVars, wdone>>

\* execute_pending, lines 116-118: record the time and invoke the action
WInvoke ==
  /\ wpc = "iter"
  /\ ~Empty(jobs)
  /\ ~canceled[Begin(jobs)]
  /\ ~NotDue(Begin(jobs), now)
  /\ it' = Begin(jobs)
  /\ got' = GotPut(got, Begin(jobs), now)
  /\ executed' = Append(executed, Begin(jobs))
  /\ wpc' = "running"
  /\ UNCHANGED <<envVars, jobs, canceled, use_count, notified, discarded, jobs_mutex, callerVars, wdone, now>>

\* execute_pending, lines 118-119: the action returns, erase the job
WReturn ==
  /\ wpc = "running"
  /\ jobs' = SetErase(jobs, it)
  /\ use_count' = [use_count EXCEPT ![it] = Owners(jobs', it)]
  /\ it' = 0
  /\ wpc' = "iter"
  /\ UNCHANGED <<envVars, canceled, got, notified, executed, discarded, jobs_mutex, callerVars, wdone, now>>

\* execute_pending, line 118: the action throws.  Nothing catches the
\* exception in execute_pending or loop: it leaves the thread function and
\* std::terminate ends the process, the mutex still locked and the job still
\* in the set.
WThrow ==
  /\ wpc = "running"
  /\ wpc' = "crashed"
  /\ UNCHANGED <<envVars, sharedVars, jobs_mutex, callerVars, wdone, now, it>>

Worker ==
  \/ WDone
  \/ WFlag
  \/ WNow
  \/ WLock
  \/ WEmpty
  \/ WSkipCanceled
  \/ WWait
  \/ WWake
  \/ WInvoke
  \/ WReturn

Caller(t) ==
  \/ \E at \in Times : ScheduleCall(t, at)
  \/ ScheduleBody(t)
  \/ \E j \in JobIds : CancelCall(t, j)
  \/ CancelBody(t)
  \/ DoneCall(t)
  \/ DoneBody(t)

\* a caller operation in progress runs to its return
CallerFinish(t) ==
  \/ ScheduleBody(t)
  \/ CancelBody(t)
  \/ DoneBody(t)

Next ==
  \/ Advance
  \/ SetNoTasksLeft
  \/ Join
  \/ Worker
  \/ \E t \in Threads : Caller(t)

Spec ==
  Init /\ [][Next]_vars

\* The program with a single producer thread (as in main, where one thread
\* makes every schedule and cancel call).
OneProducerNext ==
  \/ Advance
  \/ SetNoTasksLeft
  \/ Join
  \/ Worker
  \/ Caller(1)

\* The program with a single producer thread and actions that may throw.
ThrowNext ==
  \/ OneProducerNext
  \/ WThrow

ThrowSpec ==
  Init /\ [][ThrowNext]_vars

\* Fairness: the worker thread keeps running (wait_until returns at its
\* deadline at the latest, the actions return) and gets the mutex, which every
\* holder releases; a caller inside an operation runs to its return; the
\* owner, which is between two calls again and again, eventually destroys the
\* scheduler once the worker has left its loop.
FairSpec ==
  /\ Init /\ [][OneProducerNext]_vars
  /\ SF_vars(Worker)
  /\ WF_vars(CallerFinish(1))
  /\ SF_vars(Join)

\* ------------------------------------------------------------- properties
\* number of times the action of job j has been invoked
Executions(j) ==
  Count(executed, j)

\* job j was erased by the worker as cancelled (lines 108-110)
Discarded(j) ==
  j \in discarded

\* C1: the action of every job is invoked at most once, a job discarded as
\* cancelled is never invoked, and every invocation is a step of the worker
\* thread, made inside execute_pending.
C1_AtMostOnce ==
  /\ [](\A j \in JobIds : /\ Executions(j) <= 1
                          /\ Discarded(j) => Executions(j) = 0)
  /\ [][executed' # executed =>
          /\ wpc = "iter" /\ wpc' = "running"
          /\ pc' = pc
          /\ executed' = Append(executed, it')]_vars

C1_Witness ==
  /\ \E j \in JobIds : Executions(j) = 1 /\ Expired(j)
  /\ \E k \in JobIds : Discarded(k)
  /\ wpc = "iter"

\* no cancel call is or was made on D (id 1) or E (id 2)
NoCancelDE ==
  \A t \in Threads : ~(pc[t] = "cancel" /\ arg[t] \in {1, 2})

\* D and E have been scheduled with the same due time and the clock has reached it
DueTie ==
  /\ Returned(1)
  /\ Returned(2)
  /\ launch_at[1] = launch_at[2]
  /\ clock >= launch_at[1]

\* C2: if D (id 1) and E (id 2) are scheduled in that order with the same due
\* time and neither is ever cancelled, then, while the worker is kept running
\* (the shutdown flag is not raised), once the clock has reached the due time
\* both are eventually executed, exactly once each.
C2_TieBothRun ==
  [](NoCancelDE /\ ~no_tasks_left) =>
     (DueTie ~> (Executions(1) = 1 /\ Executions(2) = 1))

\* C3: no early execution: the time recorded in got for an executed job is at
\* or after its due time, and so is the clock while its action is invoked.
C3_NoEarlyExecution ==
  /\ \A id \in DOMAIN got : got[id] >= launch_at[id]
  /\ wpc = "running" => clock >= launch_at[it]

C3_Witness ==
  /\ wpc = "running"
  /\ launch_at[it] > 0
  /\ got[it] = launch_at[it]
  /\ clock > got[it]

\* C4 as claimed: a job on which cancel was called while the clock was before
\* its due time is never invoked and never gets into the completion record,
\* also while that call still waits for the mutex.
C4_CalledEarlyNeverRuns ==
  \A t \in Threads :
     (pc[t] = "cancel" /\ calledEarly[t]) =>
        (Executions(arg[t]) = 0 /\ arg[t] \notin DOMAIN got)

\* C4 as amended: a job on which a cancel call has returned while the clock
\* was before its due time is never invoked and never gets into the completion
\* record.
C4_ReturnedEarlyNeverRuns ==
  \A j \in cancelReturnedEarly : Executions(j) = 0 /\ j \notin DOMAIN got

C4_Witness ==
  \E j \in cancelReturnedEarly :
     /\ Discarded(j)
     /\ clock >= launch_at[j]
     /\ \E k \in JobIds : Executions(k) = 1 /\ launch_at[k] >= launch_at[j]

\* the jobs scheduled so far have distinct due times and none is cancelled
DistinctBatch ==
  /\ \A a, b \in 1..nsched : a # b => launch_at[a] # launch_at[b]
  /\ \A j \in JobIds : ~canceled[j]
  /\ \A t \in Threads : pc[t] # "cancel"

\* C5 as claimed: for non-cancelled jobs with distinct due times the sequence
\* of invocations is non-decreasing in due time.
C5_ExecutedInDueOrder ==
  DistinctBatch =>
    \A i, k \in DOMAIN executed :
       i < k => launch_at[executed[i]] <= launch_at[executed[k]]

\* C5 as amended: whenever the worker invokes an action, it is that of the job
\* with the earliest due time among the jobs in the queue at that moment.
C5_EarliestQueuedFirst ==
  wpc = "running" =>
    /\ InQueue(it)
    /\ \A k \in Range(jobs) : launch_at[it] <= launch_at[k]

C5_Witness ==
  /\ wpc = "running"
  /\ Len(jobs) = 3
  /\ it = 3

\* the driver's sequencing (main, lines 173-191): once the shutdown flag is
\* raised no schedule call is in progress and none is made
NoLateSchedule ==
  no_tasks_left => \A t \in Threads : pc[t] # "schedule"

\* the shutdown flag is raised and every job in the queue is due
DrainPre ==
  /\ no_tasks_left
  /\ \A j \in Range(jobs) : launch_at[j] <= clock

\* C6: drain-to-completion: if no schedule call occurs once the flag is
\* raised, then from a state of the live scheduler where the flag is raised
\* and every queued job is due, the worker eventually has emptied the queue
\* (done() returns true) and left its loop while the scheduler is still
\* alive, and the destructor's join returns.
C6_DrainToCompletion ==
  []NoLateSchedule =>
     /\ (DrainPre /\ ~joined) ~> (~joined /\ Empty(jobs) /\ wpc = "terminated")
     /\ (DrainPre ~> joined)

\* C7: while the worker is invoking an action it does not hold jobs_mutex.
C7_ActionRunsUnlocked ==
  wpc = "running" => WorkerThread \notin jobs_mutex

\* C8: a job whose cancelled flag is set has been removed from the queue by
\* the cancel call that set it, so done() is true once every queued job has
\* been cancelled.
C8_CancelRemovesFromQueue ==
  /\ \A j \in JobIds : canceled[j] => ~InQueue(j)
  /\ (\A j \in Range(jobs) : canceled[j]) => Empty(jobs)

\* C9: a cancel call on a handle whose job is already cancelled, executed or
\* discarded changes neither the queue, nor a cancelled flag, nor the
\* completion record.
C9_StaleCancelNoEffect ==
  [][\A t \in Threads :
       (pc[t] = "cancel" /\ pc'[t] = "idle" /\ (canceled[arg[t]] \/ Expired(arg[t])))
          => UNCHANGED <<jobs, canceled, use_count, got, executed>>]_vars

C9_Witness ==
  /\ jobs_mutex = {}
  /\ \E t \in Threads :
       pc[t] = "cancel" /\ Expired(arg[t]) /\ Executions(arg[t]) = 1
  /\ \E t \in Threads :
       pc[t] = "cancel" /\ canceled[arg[t]] /\ InQueue(arg[t])

\* C10: while the scheduler is alive, a job whose schedule call has returned
\* and that has been neither executed nor cancelled is a member of the queue.
C10_QueuedUntilRun ==
  \A j \in JobIds :
     (~joined /\ Returned(j) /\ Executions(j) = 0 /\ ~canceled[j]) => InQueue(j)

\* no cancel call is ever made
NoCancelAtAll ==
  \A t \in Threads : pc[t] # "cancel"

\* C11: the driver's final check, for the runs in which no job is cancelled
\* and every schedule call returns before the flag is raised: once the
\* destructor has joined the worker, the completion record has an entry for
\* every job that was scheduled.
C11_JoinedAllRecorded ==
  [](NoLateSchedule /\ NoCancelAtAll) =>
     [](joined => \A j \in 1..nsched : j \in DOMAIN got)

\* the scenario of C12 with one tick for 50 ms: A (id 1, due 2), B (id 2,
\* due 1) and C (id 3, due 1) are scheduled in that order at clock 0, C is
\* cancelled before the clock moves, nothing else is scheduled or cancelled
\* and the shutdown flag is not raised
ScenarioABC ==
  /\ ~no_tasks_left
  /\ nsched <= 3
  /\ nsched >= 1 => launch_at[1] = 2
  /\ nsched >= 2 => launch_at[2] = 1
  /\ nsched >= 3 => launch_at[3] = 1
  /\ \A t \in Threads : pc[t] = "cancel" => arg[t] = 3
  /\ clock > 0 => (nsched = 3 /\ Returned(3) /\ 3 \in cancelReturnedEarly)

\* C12: in that scenario nothing is executed before the clock is at 1, A is
\* not executed before the clock is at 2, C is never executed, B is executed
\* once the clock is at 1 and A once it is at 2: the recorded order is B, A.
C12_ScenarioABC ==
  []ScenarioABC =>
     /\ [](executed \in {<<>>, <<2>>, <<2, 1>>})
     /\ [](clock < 1 => executed = <<>>)
     /\ [](clock < 2 => Executions(1) = 0)
     /\ (clock >= 1 ~> Executions(2) = 1)
     /\ (clock >= 2 ~> executed = <<2, 1>>)

C12_Witness ==
  /\ ~no_tasks_left
  /\ nsched = 3
  /\ launch_at[1] = 2 /\ launch_at[2] = 1 /\ launch_at[3] = 1
  /\ 3 \in cancelReturnedEarly
  /\ clock = 2
  /\ executed = <<2, 1>>
  /\ got[2] = 1 /\ got[1] = 2
  /\ Empty(jobs)

\* C13: the failure of an action is contained at the dispatch boundary: the
\* worker thread is not ended by it (and so goes on to execute the jobs
\* queued behind the failing one).
C13_FailureContained ==
  wpc # "crashed"

\* the worker is blocked in wait_until for the due time of job `it` and a job
\* with an earlier due time has been inserted in front of it
Preempted ==
  /\ wpc = "waiting"
  /\ ~Empty(jobs)
  /\ launch_at[Begin(jobs)] < launch_at[it]

\* C14: when a schedule call puts a job with an earlier due time in front of
\* the job the worker is waiting for, its notify_one has reached the blocked
\* worker (the signal is not missed), the worker leaves the wait for the top of
\* its loop, and once the clock has reached the new job's due time that job is
\* executed (unless it is cancelled first), whether or not the clock ever
\* reaches the due time the worker was waiting for.
C14_PreemptionNotMissed ==
  /\ [](Preempted => notified)
  /\ [][(wpc = "waiting" /\ wpc' # "waiting") => (wpc' = "loop" /\ ~notified')]_vars
  /\ \A j \in JobIds :
        (Preempted /\ Begin(jobs) = j /\ clock >= launch_at[j])
           ~> (Executions(j) = 1 \/ canceled[j])

C14_Witness ==
  /\ Preempted
  /\ notified
  /\ clock >= launch_at[Begin(jobs)]
  /\ clock < launch_at[it]

\* C15: a cancel that takes effect on a queued job signals the condition
\* variable before it returns: whenever the worker is blocked in the timed wait
\* for a job that has since been cancelled, a notification is pending for it.
C15_CancelSignalsWorker ==
  (wpc = "waiting" /\ InQueue(it) /\ canceled[it]) => notified

\* C16: the worker leaves its dispatch loop only in a state where the queue is
\* empty and no_tasks_left is set, both at the moment of the exit.
C16_ExitOnlyWhenDrained ==
  [][(wpc # "terminated" /\ wpc' = "terminated")
        => (Empty(jobs) /\ no_tasks_left)]_vars

\* C17: a handle never keeps its job alive.  A handle returned by schedule is
\* live (not expired) exactly when its job is a member of the queue, and a
\* step changes a job's cancelled flag only if the job is in the queue.  (The
\* temporary owner made by handle.lock() lives only inside cancel's critical
\* section, which is one step here.)
C17_HandleLiveIffQueued ==
  /\ [](\A j \in JobIds : Returned(j) => (~Expired(j) <=> InQueue(j)))
  /\ [][\A j \in JobIds : canceled'[j] # canceled[j] => InQueue(j)]_vars

C17_Witness ==
  \E j, k \in JobIds :
     /\ Returned(j) /\ Returned(k)
     /\ InQueue(j) /\ ~Expired(j) /\ canceled[j]
     /\ ~InQueue(k) /\ Expired(k) /\ Executions(k) = 1
     /\ ~canceled[k]

\* C18: mutual exclusion on the queue.  At most one thread holds jobs_mutex;
\* the worker holds it exactly while it is inside the loop of execute_pending
\* (iterating or running an action); the critical section of schedule, cancel
\* and done is entered only when nobody holds the mutex; and every step that
\* changes the job set, a cancelled flag or an owner count is either a worker
\* step taken with the mutex held by the worker or such a critical section,
\* or the destructor, which runs when the worker has ended and no call is in
\* progress.
C18_MutualExclusion ==
  /\ [](/\ Cardinality(jobs_mutex) <= 1
        /\ WorkerThread \in jobs_mutex <=> wpc \in {"iter", "running"})
  /\ [][\A t \in Threads :
          (pc[t] \in {"schedule", "cancel", "done"} /\ pc'[t] = "idle")
             => (jobs_mutex = {} /\ jobs_mutex' = {})]_vars
  /\ [][(wpc = "loop" /\ wpc' # "loop") => (jobs_mutex = {} /\ jobs_mutex' = {})]_vars
  /\ [][(jobs' # jobs \/ canceled' # canceled \/ use_count' # use_count)
          => \/ (jobs_mutex = {WorkerThread} /\ pc' = pc)
             \/ (jobs_mutex = {} /\ pc' # pc /\ wpc' = wpc)
             \/ (~joined /\ joined' /\ wpc = "terminated"
                   /\ \A t \in Threads : pc[t] = "idle")]_vars

C18_Witness ==
  /\ jobs_mutex = {WorkerThread}
  /\ wpc = "running"
  /\ pc[1] = "schedule"
  /\ pc[2] = "cancel"
  /\ InQueue(arg[2])

\* C19: the worker is blocked in wait_until only while the queue is non-empty
\* and for a job of the queue that, when the wait began, was the earliest job,
\* was not cancelled and had a due time later than the worker's clock
\* snapshot; with the queue empty and no_tasks_left false the worker is not
\* blocked and has not left its loop: it is polling done(), the flag and the
\* clock or passing through execute_pending.
C19_BlockedOnlyOnFutureJob ==
  /\ [](wpc = "waiting" =>
          (~Empty(jobs) /\ InQueue(it) /\ launch_at[it] > now))
  /\ [][(wpc # "waiting" /\ wpc' = "waiting") =>
          /\ ~Empty(jobs)
          /\ it' = Begin(jobs)
          /\ ~canceled[it']
          /\ launch_at[it'] > now
          /\ now' = now]_vars
  /\ []((Empty(jobs) /\ ~no_tasks_left) =>
          wpc \in {"loop", "flag", "now", "lock", "iter"})

C19_Witness ==
  /\ wpc = "waiting"
  /\ canceled[it]
  /\ Begin(jobs) # it
  /\ launch_at[it] > now
  /\ clock > now

\* C20: once the worker has left its loop it stays out of it; for as long as
\* the scheduler lives, a schedule call that finds no job with the same due
\* time still inserts its job, and no job leaves the queue; no action is
\* invoked and nothing is recorded any more.  So a job inserted after the exit
\* is never executed, and it stays queued, with done() (queue empty) false, in
\* every later state of the scheduler's life; the destructor then destroys it
\* unexecuted, and its handle expires.
C20_InsertedAfterExitStays ==
  /\ [][wpc = "terminated" =>
          /\ wpc' = "terminated"
          /\ executed' = executed
          /\ got' = got
          /\ ~joined' => \A j \in Range(jobs) : j \in Range(jobs')
          /\ \A t \in Threads :
                (pc[t] = "schedule" /\ pc'[t] = "idle" /\ Inserts(jobs, arg[t]))
                   => (arg[t] \in Range(jobs') /\ arg[t] \in insertedAfterExit')]_vars
  /\ [](\A j \in insertedAfterExit :
           /\ wpc = "terminated"
           /\ Executions(j) = 0
           /\ j \notin DOMAIN got
           /\ ~joined => (InQueue(j) /\ ~Expired(j) /\ ~Empty(jobs))
           /\ joined => Expired(j))

C20_Witness ==
  \E j \in insertedAfterExit :
     /\ ~joined
     /\ InQueue(j)
     /\ ~canceled[j]
     /\ clock >= launch_at[j]
     /\ \A t \in Threads : pc[t] = "idle"

====
